---- MODULE Spec2Model ----
(***************************************************************************)
(* Model of the "ssr" software RAID-1 block driver (src/ssr.c).            *)
(*                                                                         *)
(* Addresses and lengths are counted in 32-bit words (the size of one      *)
(* CRC entry); a word is scaled down to one bit, a sector to               *)
(* KERNEL_SECTOR_SIZE words and crc32 to the 1-bit CRC (polynomial x+1).   *)
(* Each mirror is a word-addressed device laid out as the README says:     *)
(* LOGICAL_DISK_SECTORS data sectors followed by one CRC word per sector.  *)
(*                                                                         *)
(* Specifications:                                                         *)
(*   Spec         the loaded driver: submissions, the worker, corruption   *)
(*   FairSpec     submissions and the worker, the worker being fair        *)
(*   LifeSpec     ssr_init and ssr_exit call by call, with bios for        *)
(*                sector 0 submitted and handled meanwhile                 *)
(*   FairLifeSpec LifeSpec with a fair worker                              *)
(*   JudgeSpec    the validity test of process_device on arbitrary         *)
(*                contents of sector 0 of both mirrors                     *)
(***************************************************************************)
EXTENDS Integers, Sequences, FiniteSets, TLC

\* ---------------------------------------------------------------- bounds
\* capacity of the logical device in sectors (ssr.h, scaled)
LOGICAL_DISK_SECTORS == 2

\* words per sector (ssr.h: 512 bytes = 128 words, scaled)
KERNEL_SECTOR_SIZE == 2

\* number of bios handed to ssr_submit_bio in one run
MaxRequests == 2

\* largest bi_vcnt of an inbound bio (one sector per segment)
MaxSegments == 2

\* number of single-word corruptions injected into the mirrors
MaxCorrupt == 2

\* ------------------------------------------------------------- geometry
Word == {0, 1}

SectorData == [1..KERNEL_SECTOR_SIZE -> Word]

\* size of the data region of a mirror, in words
LOGICAL_DISK_SIZE == LOGICAL_DISK_SECTORS * KERNEL_SECTOR_SIZE

\* sectors taken by the CRC area (one word per logical sector, rounded up)
ChecksumSectors ==
    (LOGICAL_DISK_SECTORS + KERNEL_SECTOR_SIZE - 1) \div KERNEL_SECTOR_SIZE

PhysWords == LOGICAL_DISK_SIZE + ChecksumSectors * KERNEL_SECTOR_SIZE

Mirrors == {"vdb", "vdc"}

LogicalSectors == 0..(LOGICAL_DISK_SECTORS - 1)

\* README layout: sector s of the data region
data_offset(s) == s * KERNEL_SECTOR_SIZE

\* README layout: CRC of sector s, right after LOGICAL_DISK_SIZE
checksum_offset(s) == LOGICAL_DISK_SIZE + s

ReadWords(dev, off, n) == [i \in 1..n |-> dev[off + i - 1]]

WriteWords(dev, off, buf) ==
    [a \in DOMAIN dev |->
        IF off <= a /\ a < off + Len(buf) THEN buf[a - off + 1] ELSE dev[a]]

\* crc32(seed, buffer, len) of linux/crc32.h, scaled to a 1-bit register:
\* each word is xored into the register, which is then reduced by the
\* polynomial.
RECURSIVE crc32(_, _)
crc32(seed, buf) ==
    IF buf = << >> THEN seed
    ELSE crc32((seed + Head(buf)) % 2, Tail(buf))

SectorOf(dev, s) == ReadWords(dev, data_offset(s), KERNEL_SECTOR_SIZE)

CrcOf(dev, s) == dev[checksum_offset(s)]

\* README: a sector is corrupt when its CRC value is wrong
Valid(dev, s) == crc32(0, SectorOf(dev, s)) = CrcOf(dev, s)

\* ---------------------------------------------------------------- state
VARIABLES
    disk,        \* contents of /dev/vdb and /dev/vdc
    ssr_wq,      \* the single-threaded work queue: pending struct ssr_work
    submitted,   \* bios handed to ssr_submit_bio so far
    corrupted,   \* corruptions injected so far
    written,     \* per sector: payload of the last write completed with
                 \* success and not corrupted since (NoData when none)
    last,        \* the request whose processing ended most recently
    life,        \* where ssr_init / ssr_exit stand and what the module holds
    judge        \* the verdicts of one pass of the handler over a sector

vars == <<disk, ssr_wq, submitted, corrupted, written, last, life, judge>>

NoData == << >>

BLK_STS_OK == "BLK_STS_OK"

\* what the caller's buffer holds when a bio is submitted: the payload of
\* a write, stale ones for a read
Payloads(dir) ==
    IF dir = "READ" THEN {[k \in 1..KERNEL_SECTOR_SIZE |-> 1]}
    ELSE {d \in SectorData : \A k \in 2..KERNEL_SECTOR_SIZE : d[k] = 1}

\* payload of segment i of a request whose first segment holds d
Segment(d, i) == [k \in 1..KERNEL_SECTOR_SIZE |-> (d[k] + i - 1) % 2]

NewBio(dir, sector, vcnt, d) ==
    [dir       |-> dir,
     bi_sector |-> sector,
     bi_vcnt   |-> vcnt,
     buf       |-> [i \in 1..vcnt |-> Segment(d, i)],
     bi_status |-> BLK_STS_OK]

NoBio == [dir |-> "none", bi_sector |-> 0, bi_vcnt |-> 0, buf |-> << >>,
          bi_status |-> BLK_STS_OK]

\* by: "submit" (ended inside ssr_submit_bio) or "worker" (ended by
\* ssr_handle_requests); fail, oops: the path taken through ssr_submit_bio;
\* bi_opf, data_sector, crc32_sector: the outgoing bios of the work item;
\* err_*: results of the two submit_bio_wait calls; healthy: every sector
\* of the bio was valid on both mirrors when the worker took it
NoLast ==
    [by |-> "none", bio |-> NoBio, fail |-> "none", oops |-> FALSE,
     bi_opf |-> "none", data_sector |-> 0, crc32_sector |-> 0,
     err_crc32 |-> FALSE, err_data |-> FALSE, healthy |-> FALSE]

\* sectors a bio covers (one per segment)
BioSectors(bio) == {bio.bi_sector + i - 1 : i \in 1..bio.bi_vcnt}

InRange(bio) == bio.bi_sector + bio.bi_vcnt <= LOGICAL_DISK_SECTORS

\* ------------------------------------------------------------ lifecycle
\* what ssr_init acquires: the work queue, the major number, the request
\* queue, the gendisk, the disk's registration (add_disk makes /dev/ssr
\* visible and bios can be submitted to it), and the two mirror handles
Resources == {"ssr_wq", "major", "queue", "gd", "disk", "vdb", "vdc"}

\* ssr_init with create_block_device inlined: the acquisitions in order
InitCalls ==
    << <<"create_singlethread_workqueue", "ssr_wq">>,
       <<"register_blkdev", "major">>,
       <<"blk_alloc_queue", "queue">>,
       <<"alloc_disk", "gd">>,
       <<"add_disk", "disk">>,
       <<"open_disk", "vdb">>,
       <<"open_disk", "vdc">> >>

\* the acquisitions whose result ssr_init tests (add_disk returns void)
Fallible == Resources \ {"disk"}

delete_block_device ==
    << <<"del_gendisk", "disk">>, <<"put_disk", "gd">>,
       <<"blk_cleanup_queue", "queue">> >>

out_register_blkdev ==
    << <<"unregister_blkdev", "major">>, <<"destroy_workqueue", "ssr_wq">> >>

\* an unwinding that leaves the first mirror open when the second fails
UnwindKeepsVdb(r) ==
    CASE r = "ssr_wq" -> << >>
      [] r = "major"  -> << <<"destroy_workqueue", "ssr_wq">> >>
      [] r = "queue"  -> out_register_blkdev
      [] r = "gd"     -> << <<"blk_cleanup_queue", "queue">> >> \o out_register_blkdev
      [] r = "vdb"    -> delete_block_device \o out_register_blkdev
      [] r = "vdc"    -> delete_block_device \o out_register_blkdev

\* the calls ssr_init makes after the acquisition of r has failed
Unwind(r) ==
    CASE r = "ssr_wq" -> << >>
      [] r = "major"  -> << <<"destroy_workqueue", "ssr_wq">> >>
      [] r = "queue"  -> out_register_blkdev
      [] r = "gd"     -> << <<"blk_cleanup_queue", "queue">> >> \o out_register_blkdev
      [] r = "vdb"    -> delete_block_device \o out_register_blkdev
      [] r = "vdc"    -> << <<"close_disk", "vdb">> >> \o delete_block_device
                             \o out_register_blkdev

ExitCalls ==
    << <<"flush_workqueue", "ssr_wq">>, <<"destroy_workqueue", "ssr_wq">> >>
    \o delete_block_device
    \o << <<"close_disk", "vdb">>, <<"close_disk", "vdc">>,
          <<"unregister_blkdev", "major">> >>

Acquisitions == {InitCalls[i][1] : i \in DOMAIN InitCalls}

\* the effect of one call on the resources; log keeps the acquisitions and
\* releases in the order they were made
Apply(l, call) ==
    IF call[1] \in Acquisitions
    THEN [l EXCEPT !.res[call[2]] = "held",
                   !.log = Append(@, <<"acquire", call[2]>>)]
    ELSE IF call[1] = "flush_workqueue" THEN l
    ELSE [l EXCEPT !.res[call[2]] = "released",
                   !.log = Append(@, <<"release", call[2]>>)]

\* flush_workqueue and destroy_workqueue return when no work is pending
Ready(call) ==
    call[1] \in {"flush_workqueue", "destroy_workqueue"} => ssr_wq = << >>

\* insmod has just called ssr_init
Loading ==
    [phase |-> "init", todo |-> InitCalls,
     res |-> [r \in Resources |-> "none"], log |-> << >>, failed |-> "none"]

\* ssr_init has returned 0
Loaded ==
    [phase |-> "loaded", todo |-> << >>,
     res |-> [r \in Resources |-> "held"],
     log |-> [i \in DOMAIN InitCalls |-> <<"acquire", InitCalls[i][2]>>],
     failed |-> "none"]

\* bios can be submitted to the logical disk
Exposed == life.res["disk"] = "held"

\* no verdict on a sector yet
NoJudge == [pc |-> "none", dir |-> "none", verdict |-> << >>]

\* ----------------------------------------------------------------- init
\* both mirrors zero-filled: crc32(0, zeroes) = 0, so every sector is valid
Init ==
    /\ disk = [m \in Mirrors |-> [a \in 0..(PhysWords - 1) |-> 0]]
    /\ ssr_wq = << >>
    /\ submitted = 0
    /\ corrupted = 0
    /\ written = [s \in LogicalSectors |-> NoData]
    /\ last = NoLast
    /\ life = Loaded
    /\ judge = NoJudge

\* ------------------------------------------------------- ssr_submit_bio
AllocPoints == {"data_bio", "crc32_bio", "data_page", "crc32_page", "ssrwork"}

\* a slip that would submit every outgoing bio as a write
DownOpAlwaysWrite(dir) == "WRITE"

\* bi_opf of both outgoing bios
DownOp(dir) == dir

\* a crc32 bio aimed one sector behind the data bio
Crc32BioSectorNext(sector) == sector + 1

\* bi_iter.bi_sector of the outgoing CRC bio
Crc32BioSector(sector) == sector

\* the calls ssr_submit_bio makes when the allocation `fail` returns NULL
\* ("none": every allocation succeeds).  __free_page(NULL) on the
\* crc32_page_fail path dereferences a null struct page: the task either
\* dies there (oops) or survives the call.
SubmitCalls(fail, oops) ==
    LET bios   == << <<"bio_alloc", "data_bio">>, <<"bio_alloc", "crc32_bio">> >>
        pages  == << <<"alloc_page", "data_page">>, <<"alloc_page", "crc32_page">> >>
        add    == << <<"bio_add_page", "data_page">>, <<"bio_add_page", "crc32_page">> >>
        out    == << <<"bio_endio", "bio_from_up">> >>
        l_bio  == << <<"bio_put", "data_bio">> >> \o out
        l_page == << <<"bio_put", "crc32_bio">> >> \o l_bio
        l_work == << <<"__free_page", "crc32_page">> >> \o l_page
    IN  CASE fail = "data_bio"   -> out
          [] fail = "crc32_bio"  -> SubSeq(bios, 1, 1) \o l_bio
          [] fail = "data_page"  -> bios \o l_page
          [] fail = "crc32_page" ->
                bios \o SubSeq(pages, 1, 1) \o
                    (IF oops THEN << <<"oops", "__free_page(NULL)">> >>
                             ELSE << <<"__free_page", "NULL">> >> \o l_page)
          [] fail = "ssrwork"    -> bios \o pages \o add \o l_work
          [] OTHER ->
                bios \o pages \o add \o
                    << <<"kmalloc", "ssrwork">>, <<"queue_work", "ssrwork">> >>

ssr_submit_bio(dir, sector, vcnt, d, fail, oops) ==
    LET bio_from_up == NewBio(dir, sector, vcnt, d)
    IN  /\ submitted < MaxRequests
        /\ submitted' = submitted + 1
        /\ IF fail = "none"
           THEN /\ ssr_wq' = Append(ssr_wq,
                        [bio_from_up  |-> bio_from_up,
                         data_sector  |-> sector,
                         crc32_sector |-> Crc32BioSector(sector),
                         bi_opf       |-> DownOp(dir)])
                /\ last' = last
           ELSE /\ ssr_wq' = ssr_wq
                /\ last' = [NoLast EXCEPT !.by = "submit", !.bio = bio_from_up,
                                          !.fail = fail, !.oops = oops]
        /\ UNCHANGED <<disk, corrupted, written, life, judge>>

\* -------------------------------------------------------- process_device
\* one pass over the single segment of the outgoing bios; pg holds the
\* contents of data_page and crc32_page
\* the comparison process_device decides on: the CRC of the data page
\* against the CRC of the crc32 page
JudgedValid(pg) == crc32(0, pg.data) = crc32(0, pg.crc32)

process_device(dir, pg) ==
    IF ~JudgedValid(pg) THEN pg
    ELSE IF dir = "READ" THEN [pg EXCEPT !.data = pg.crc32]
    ELSE IF dir = "WRITE" THEN [pg EXCEPT !.crc32 = pg.data]
    ELSE pg

\* ------------------------------------------------------- submit_bio_wait
\* synchronous I/O of one page on a mirror; fail: the device reports an
\* I/O error and transfers nothing
submit_bio_wait(dev, op, sector, page, fail) ==
    LET off == sector * KERNEL_SECTOR_SIZE
    IN  IF fail \/ off + Len(page) > PhysWords
        THEN [dev |-> dev, page |-> page, err |-> TRUE]
        ELSE IF op = "READ"
        THEN [dev |-> dev, page |-> ReadWords(dev, off, Len(page)), err |-> FALSE]
        ELSE [dev |-> WriteWords(dev, off, page), page |-> page, err |-> FALSE]

\* -------------------------------------------------- ssr_handle_requests
\* the mirror both outgoing bios point at when they are submitted
SubmitDisk == "vdc"

\* bi_status the inbound bio is completed with, given the results of the
\* two submit_bio_wait calls
EndStatus(bio, err_crc32, err_data) == bio.bi_status

\* ssr_handle_requests on the head of the queue.  d0 and c0 are what the
\* never-initialised data_page and crc32_page hold, f1 and f2 whether the
\* device fails the CRC bio and the data bio; pg1 and pg2 are the pages
\* after the two process_device calls, r1 and r2 the results of the two
\* submit_bio_wait calls.  The caller's pages are not touched.  The handler
\* gets this far when neither mirror handle is NULL.
ssr_handle_requests ==
    /\ ssr_wq # << >>
    /\ \A m \in Mirrors : life.res[m] # "none"
    /\ ssr_wq' = Tail(ssr_wq)
    /\ UNCHANGED <<submitted, corrupted, life, judge>>
    /\ LET w   == Head(ssr_wq)
           bio == w.bio_from_up
       IN  \E d0 \in SectorData, c0 \in SectorData, f1 \in BOOLEAN, f2 \in BOOLEAN :
           \E pg1 \in {process_device(bio.dir, [data |-> d0, crc32 |-> c0])} :
           \E pg2 \in {process_device(bio.dir, pg1)} :
           \E r1 \in {submit_bio_wait(disk[SubmitDisk], w.bi_opf,
                                      w.crc32_sector, pg2.crc32, f1)} :
           \E r2 \in {submit_bio_wait(r1.dev, w.bi_opf,
                                      w.data_sector, pg2.data, f2)} :
           \E o \in {[dev |-> r2.dev, err_crc32 |-> r1.err, err_data |-> r2.err]} :
           LET done == [bio EXCEPT
                          !.bi_status = EndStatus(bio, o.err_crc32, o.err_data)]
           IN  /\ disk' = [disk EXCEPT ![SubmitDisk] = o.dev]
               /\ written' =
                     [s \in LogicalSectors |->
                        IF /\ bio.dir = "WRITE"
                           /\ done.bi_status = BLK_STS_OK
                           /\ s \in BioSectors(bio)
                        THEN bio.buf[s - bio.bi_sector + 1]
                        ELSE written[s]]
               /\ last' =
                     [by           |-> "worker",
                      bio          |-> done,
                      fail         |-> "none",
                      oops         |-> FALSE,
                      bi_opf       |-> w.bi_opf,
                      data_sector  |-> w.data_sector,
                      crc32_sector |-> w.crc32_sector,
                      err_crc32    |-> o.err_crc32,
                      err_data     |-> o.err_data,
                      healthy      |-> \A m \in Mirrors : \A s \in BioSectors(bio) :
                                         s \in LogicalSectors /\ Valid(disk[m], s)]

\* ssr_handle_requests when phys_bdev_vdb or phys_bdev_vdc is not an open
\* handle: the handler dereferences it (->bd_disk) before anything else.
\* A NULL handle oopses; a handle already closed dangles, and the access
\* either oopses as well or goes through (ssr_handle_requests above).
\* The kernel thread dies with the work item: the bio is never ended.
ssr_handle_requests_oops ==
    /\ ssr_wq # << >>
    /\ \E m \in Mirrors : life.res[m] # "held"
    /\ ssr_wq' = Tail(ssr_wq)
    /\ last' = [NoLast EXCEPT !.by = "oops",
                              !.bio = Head(ssr_wq).bio_from_up,
                              !.oops = TRUE]
    /\ UNCHANGED <<disk, submitted, corrupted, written, life, judge>>

\* the calls made on a bio from its submission to its end
WorkerCalls ==
    << <<"process_device", "vdb">>, <<"process_device", "vdc">>,
       <<"submit_bio_wait", "crc32_bio">>, <<"submit_bio_wait", "data_bio">>,
       <<"kfree", "ssrwork">>, <<"bio_endio", "bio_from_up">> >>

Calls(l) ==
    IF l.by = "worker" THEN SubmitCalls("none", FALSE) \o WorkerCalls
    ELSE IF l.by = "submit" THEN SubmitCalls(l.fail, l.oops)
    ELSE IF l.by = "oops"
    THEN SubmitCalls("none", FALSE) \o << <<"oops", "phys_bdev->bd_disk">> >>
    ELSE << >>

\* the device I/O issued for a bio ended by the worker, in order
IoLog(l) ==
    IF l.by # "worker" THEN << >>
    ELSE << [bio |-> "crc32", disk |-> SubmitDisk, op |-> l.bi_opf,
             off |-> l.crc32_sector * KERNEL_SECTOR_SIZE,
             len |-> KERNEL_SECTOR_SIZE, err |-> l.err_crc32],
            [bio |-> "data", disk |-> SubmitDisk, op |-> l.bi_opf,
             off |-> l.data_sector * KERNEL_SECTOR_SIZE,
             len |-> KERNEL_SECTOR_SIZE, err |-> l.err_data] >>

\* ---------------------------------------------------------- environment
\* silent corruption: the first data word of a sector flips on one mirror
CorruptibleWords == {data_offset(s) : s \in LogicalSectors}

Touches(a, s) ==
    \/ data_offset(s) <= a /\ a < data_offset(s) + KERNEL_SECTOR_SIZE
    \/ a = checksum_offset(s)

Corrupt(m, a) ==
    /\ corrupted < MaxCorrupt
    /\ corrupted' = corrupted + 1
    /\ disk' = [disk EXCEPT ![m][a] = 1 - @]
    /\ written' = [s \in LogicalSectors |->
                     IF Touches(a, s) THEN NoData ELSE written[s]]
    /\ UNCHANGED <<ssr_wq, submitted, last, life, judge>>

\* ----------------------------------------------------------------- spec
\* a bio is looked at only after the allocations that precede the loop, so
\* the failing paths are driven with one-segment bios at sector 0
Submit ==
    \E dir \in {"READ", "WRITE"}, fail \in AllocPoints \cup {"none"} :
    \E sector \in (IF fail = "none" THEN LogicalSectors ELSE {0}),
       vcnt \in (IF fail = "none" THEN 1..MaxSegments ELSE {1}),
       d \in Payloads(dir),
       oops \in (IF fail = "crc32_page" THEN BOOLEAN ELSE {FALSE}) :
        ssr_submit_bio(dir, sector, vcnt, d, fail, oops)

Worker == ssr_handle_requests

Corruption == \E m \in Mirrors, a \in CorruptibleWords : Corrupt(m, a)

Next == Submit \/ Worker \/ Corruption

Spec == Init /\ [][Next]_vars

\* progress of the work queue: submissions and the worker, the stored data
\* left alone by the environment; the kernel thread of ssr_wq runs a
\* queued work item as long as one is pending
FairNext == Submit \/ Worker

FairSpec == Init /\ [][FairNext]_vars /\ WF_vars(Worker)

\* ------------------------------------------------- ssr_init and ssr_exit
\* one call of ssr_init; ok: whether the call succeeds
ssr_init(ok) ==
    /\ life.phase = "init"
    /\ LET call == Head(life.todo)
           rest == Tail(life.todo)
       IN  IF ok
           THEN life' = [Apply(life, call) EXCEPT
                           !.todo = rest,
                           !.phase = IF rest = << >> THEN "loaded" ELSE "init"]
           ELSE /\ call[2] \in Fallible
                /\ life' = [life EXCEPT
                              !.todo = Unwind(call[2]),
                              !.failed = call[2],
                              !.phase = IF Unwind(call[2]) = << >>
                                        THEN "init_failed" ELSE "unwind"]
    /\ UNCHANGED <<disk, ssr_wq, submitted, corrupted, written, last, judge>>

\* one call of the error path of ssr_init
ssr_init_unwind ==
    /\ life.phase = "unwind"
    /\ Ready(Head(life.todo))
    /\ life' = [Apply(life, Head(life.todo)) EXCEPT
                  !.todo = Tail(life.todo),
                  !.phase = IF Tail(life.todo) = << >>
                            THEN "init_failed" ELSE "unwind"]
    /\ UNCHANGED <<disk, ssr_wq, submitted, corrupted, written, last, judge>>

\* one call of ssr_exit, entered once ssr_init has returned 0
ssr_exit ==
    /\ life.phase \in {"loaded", "exit"}
    /\ LET todo == IF life.phase = "loaded" THEN ExitCalls ELSE life.todo
       IN  /\ Ready(Head(todo))
           /\ life' = [Apply(life, Head(todo)) EXCEPT
                         !.todo = Tail(todo),
                         !.phase = IF Tail(todo) = << >> THEN "gone" ELSE "exit"]
    /\ UNCHANGED <<disk, ssr_wq, submitted, corrupted, written, last, judge>>

\* a bio for sector 0 reaches ssr_submit_bio once the disk is visible
LifeSubmit ==
    /\ Exposed
    /\ \E dir \in {"READ", "WRITE"} :
          ssr_submit_bio(dir, 0, 1, [k \in 1..KERNEL_SECTOR_SIZE |-> 1],
                         "none", FALSE)

\* the kernel thread of ssr_wq exists from create_singlethread_workqueue
\* to destroy_workqueue
LifeWorker ==
    /\ life.res["ssr_wq"] = "held"
    /\ (ssr_handle_requests \/ ssr_handle_requests_oops)

LifeInit ==
    /\ disk = [m \in Mirrors |-> [a \in 0..(PhysWords - 1) |-> 0]]
    /\ ssr_wq = << >>
    /\ submitted = 0
    /\ corrupted = 0
    /\ written = [s \in LogicalSectors |-> NoData]
    /\ last = NoLast
    /\ life = Loading
    /\ judge = NoJudge

LifeNext ==
    \/ \E ok \in BOOLEAN : ssr_init(ok)
    \/ ssr_init_unwind
    \/ ssr_exit
    \/ LifeSubmit
    \/ LifeWorker

LifeSpec == LifeInit /\ [][LifeNext]_vars

FairLifeSpec == LifeSpec /\ WF_vars(LifeWorker)

\* --------------------------------------------------- validity of a sector
\* a mirror whose sector 0 holds data d and stored checksum c
DiskWith(d, c) ==
    [a \in 0..(PhysWords - 1) |->
        IF a < KERNEL_SECTOR_SIZE THEN d[a + 1]
        ELSE IF a = checksum_offset(0) THEN c
        ELSE 0]

JudgeInit ==
    /\ disk \in [Mirrors -> {DiskWith(d, c) : d \in SectorData, c \in Word}]
    /\ ssr_wq = << >>
    /\ submitted = 0
    /\ corrupted = 0
    /\ written = [s \in LogicalSectors |-> NoData]
    /\ last = NoLast
    /\ life = Loaded
    /\ judge = NoJudge

\* the two process_device calls of ssr_handle_requests on a request for
\* sector 0, the first with bi_disk set to vdb and the second to vdc: each
\* compares the CRCs of the pages as they are then (d0 and c0 at first)
\* and takes its branch on it
JudgeSector ==
    /\ judge.pc = "none"
    /\ \E dir \in {"READ", "WRITE"}, d0 \in SectorData, c0 \in SectorData :
       \E pg0 \in {[data |-> d0, crc32 |-> c0]} :
       \E pg1 \in {process_device(dir, pg0)} :
          judge' = [pc |-> "done", dir |-> dir,
                    verdict |-> [m \in Mirrors |->
                                   IF m = "vdb" THEN JudgedValid(pg0)
                                   ELSE JudgedValid(pg1)]]
    /\ UNCHANGED <<disk, ssr_wq, submitted, corrupted, written, last, life>>

JudgeNext == JudgeSector

JudgeSpec == JudgeInit /\ [][JudgeNext]_vars

\* ============================================================== claims
\* a step of the worker: it takes the head of the work queue
WorkerStep == ssr_wq # << >> /\ ssr_wq' = Tail(ssr_wq)

\* the inbound bio of the work item the worker takes next
HeadBio == Head(ssr_wq).bio_from_up

\* sector of segment i of a bio
SegSector(bio, i) == bio.bi_sector + i - 1

Count(seq, x) == Cardinality({i \in DOMAIN seq : seq[i] = x})

WritesTo(l, m) ==
    {i \in DOMAIN IoLog(l) : IoLog(l)[i].disk = m /\ IoLog(l)[i].op = "WRITE"}

\* C1: after a write of D to sector s completed with success, a read of s
\* (no corruption and no other write to s in between) completes with
\* success and delivers exactly D to the caller's buffer.
C1_ReadReturnsWritten ==
    [][(WorkerStep /\ HeadBio.dir = "READ" /\ InRange(HeadBio)) =>
          \A i \in 1..HeadBio.bi_vcnt :
              written[SegSector(HeadBio, i)] # NoData =>
                  /\ last'.bio.bi_status = BLK_STS_OK
                  /\ last'.bio.buf[i] = written[SegSector(HeadBio, i)]]_vars

\* C2: after a write of D to sector s completed with success, both mirrors
\* hold D at the data location of s and crc32(D) at its checksum location.
C2_WriteReachesBothMirrors ==
    [][(/\ WorkerStep /\ HeadBio.dir = "WRITE" /\ InRange(HeadBio)
        /\ last'.bio.bi_status = BLK_STS_OK) =>
          \A m \in Mirrors : \A i \in 1..HeadBio.bi_vcnt :
              /\ SectorOf(disk'[m], SegSector(HeadBio, i)) = HeadBio.buf[i]
              /\ CrcOf(disk'[m], SegSector(HeadBio, i)) =
                     crc32(0, HeadBio.buf[i])]_vars

\* C3: when exactly one mirror's copy of sector s fails its checksum, a
\* read of s returns the valid mirror's data and leaves the corrupted
\* mirror's data and checksum equal to the valid mirror's, whichever
\* mirror is the corrupted one.
C3_ReadRepairsCorruptMirror ==
    [][(WorkerStep /\ HeadBio.dir = "READ" /\ InRange(HeadBio)) =>
          \A i \in 1..HeadBio.bi_vcnt : \A good \in Mirrors : \A bad \in Mirrors :
              LET s == SegSector(HeadBio, i)
              IN  (Valid(disk[good], s) /\ ~Valid(disk[bad], s)) =>
                      /\ last'.bio.bi_status = BLK_STS_OK
                      /\ last'.bio.buf[i] = SectorOf(disk[good], s)
                      /\ SectorOf(disk'[bad], s) = SectorOf(disk[good], s)
                      /\ CrcOf(disk'[bad], s) = CrcOf(disk[good], s)]_vars

\* C4: when both mirrors' copies of a sector fail their checksum, a read of
\* it completes with an error and leaves both mirrors unchanged.
C4_ReadOfLostSectorFails ==
    [][(/\ WorkerStep /\ HeadBio.dir = "READ" /\ InRange(HeadBio)
        /\ \E s \in BioSectors(HeadBio) :
              \A m \in Mirrors : ~Valid(disk[m], s)) =>
          /\ last'.bio.bi_status # BLK_STS_OK
          /\ disk' = disk]_vars

\* C5: a read of sectors that are valid on both mirrors issues no write and
\* leaves both mirrors unchanged; a read writes to a mirror only when a
\* checksum mismatch was detected on that mirror.
C5_HealthyReadWritesNothing ==
    [][(WorkerStep /\ HeadBio.dir = "READ") =>
          \A m \in Mirrors :
              (disk'[m] # disk[m] \/ WritesTo(last', m) # {}) =>
                  \E s \in BioSectors(HeadBio) \cap LogicalSectors :
                      ~Valid(disk[m], s)]_vars

\* a read of sectors valid on both mirrors has been completed by the worker
C5_Witness ==
    /\ last.by = "worker" /\ last.bio.dir = "READ" /\ last.healthy
    /\ Len(IoLog(last)) = 2

\* C6: on every path through ssr_submit_bio and the worker, bio_endio is
\* called on the inbound bio exactly once.
C6_EndioExactlyOnce ==
    last.by # "none" => Count(Calls(last), <<"bio_endio", "bio_from_up">>) = 1

\* C7: a write whose data or checksum write fails on a mirror completes
\* with an error; a write completes with success only if the data and the
\* checksum were written without error on each of the two mirrors.
C7_WriteErrorIsReported ==
    (last.by = "worker" /\ last.bio.dir = "WRITE") =>
        /\ (last.err_crc32 \/ last.err_data) => last.bio.bi_status # BLK_STS_OK
        /\ last.bio.bi_status = BLK_STS_OK =>
              \A m \in Mirrors : \A which \in {"data", "crc32"} :
                  \E i \in WritesTo(last, m) :
                      IoLog(last)[i].bio = which /\ ~IoLog(last)[i].err

C9_LayoutOfIo ==
    (last.by = "worker" /\ InRange(last.bio)) =>
        /\ \A i \in DOMAIN IoLog(last) :
              LET e == IoLog(last)[i]
              IN  /\ e.bio = "data" => e.off = data_offset(last.bio.bi_sector)
                  /\ e.bio = "crc32" =>
                        /\ e.off = checksum_offset(last.bio.bi_sector)
                        /\ e.off >= LOGICAL_DISK_SIZE
        /\ \A m \in Mirrors : \A which \in {"data", "crc32"} :
              \E i \in DOMAIN IoLog(last) :
                  IoLog(last)[i].disk = m /\ IoLog(last)[i].bio = which

\* C10: a request of N > 1 sectors that completes with success has had
\* every one of its N sectors transferred, not only the first.
C10_EverySegmentProcessed ==
    (/\ last.by = "worker" /\ InRange(last.bio) /\ last.bio.bi_vcnt > 1
     /\ last.bio.bi_status = BLK_STS_OK) =>
        \A k \in 1..last.bio.bi_vcnt :
            \E i \in DOMAIN IoLog(last) :
                LET e == IoLog(last)[i]
                IN  /\ e.bio = "data"
                    /\ e.off <= data_offset(SegSector(last.bio, k))
                    /\ data_offset(SegSector(last.bio, k)) < e.off + e.len

\* C11: a write of D to sector s and a read of s that were queued together
\* are executed one after the other, and the read, executed after the
\* write completed with success (no corruption in between), never finds
\* one mirror holding D while the other does not: it leaves both mirrors
\* alone (no repair) and delivers D.
C11_ReadNeverSeesHalfWrite ==
    [][(/\ WorkerStep
        /\ HeadBio.dir = "READ"
        /\ HeadBio.bi_sector \in LogicalSectors
        /\ written[HeadBio.bi_sector] # NoData
        /\ last.by = "worker"
        /\ last.bio.dir = "WRITE"
        /\ last.bio.bi_sector = HeadBio.bi_sector) =>
           LET s == HeadBio.bi_sector
               D == written[s]
           IN  /\ \A m \in Mirrors : SectorOf(disk[m], s) = D
               /\ disk' = disk
               /\ last'.bio.buf[1] = D]_vars

\* C12: under fair scheduling of the worker every accepted request is
\* eventually completed (the work queue drains again and again), and each
\* queued work item is executed exactly once: an item leaves the queue
\* only at its head, by a worker step that ends exactly that item's bio
\* with one bio_endio, and the items behind it stay queued.
C12_AcceptedEventuallyCompleted ==
    /\ []<>(ssr_wq = << >>)
    /\ [][ssr_wq' # ssr_wq =>
            \/ /\ Len(ssr_wq') = Len(ssr_wq) + 1
               /\ SubSeq(ssr_wq', 1, Len(ssr_wq)) = ssr_wq
            \/ /\ WorkerStep
               /\ last'.by = "worker"
               /\ [last'.bio EXCEPT !.bi_status = BLK_STS_OK] =
                      [HeadBio EXCEPT !.bi_status = BLK_STS_OK]
               /\ Count(Calls(last'), <<"bio_endio", "bio_from_up">>) = 1]_vars

\* C13: whenever a bio can be submitted to the logical disk, or the worker
\* can run a pending work item, both mirror handles are open.
C13_MirrorsOpenWhileInUse ==
    (Exposed \/ (life.res["ssr_wq"] = "held" /\ ssr_wq # << >>)) =>
        \A m \in Mirrors : life.res[m] = "held"

\* some mirror holds sector s with a stored checksum that matches its data
SomeValid(d, s) == \E m \in Mirrors : Valid(d[m], s)

\* C14: no write or read completed with success by the driver makes both
\* mirrors' copies of a sector invalid: a sector that had a valid copy on
\* some mirror before the request still has one after it, and a sector
\* just written has one.
C14_OneValidCopySurvives ==
    [][(WorkerStep /\ last'.by = "worker" /\ last'.bio.bi_status = BLK_STS_OK) =>
          \A s \in LogicalSectors :
              /\ SomeValid(disk, s) => SomeValid(disk', s)
              /\ (HeadBio.dir = "WRITE" /\ s \in BioSectors(HeadBio)
                  /\ corrupted = 0) => SomeValid(disk', s)]_vars

\* C15: the handler judges a mirror's copy of a sector valid exactly when
\* the checksum stored for the sector on that mirror equals the CRC (seed
\* 0) of the sector's data on that same mirror, for each mirror on its own.
C15_ValidityIsStoredCrcMatch ==
    judge.pc = "done" =>
        \A m \in Mirrors : judge.verdict[m] = Valid(disk[m], 0)

\* positions of the calls of function fn in a sequence of calls
Positions(calls, fn) == {i \in DOMAIN calls : calls[i][1] = fn}

\* C16: a request is completed only after all its mirror I/O has returned:
\* both submit_bio_wait calls precede bio_endio, and for a read the copy
\* towards the caller (process_device) comes after a device read of this
\* request has returned.
C16_CompletionAfterAllIo ==
    last.by = "worker" =>
        LET calls == Calls(last)
            io    == Positions(calls, "submit_bio_wait")
            copy  == Positions(calls, "process_device")
            endio == Positions(calls, "bio_endio")
        IN  /\ Cardinality(io) = 2
            /\ \A e \in endio : \A i \in io : i < e
            /\ last.bio.dir = "READ" =>
                  \A p \in copy : \E i \in io : i < p

\* C17: a write request changes, on each mirror, nothing but the data and
\* the checksum entries of the sectors it names: the data and the checksum
\* entry of every other sector are the same after it as before.
C17_WriteTouchesOnlyItsSectors ==
    [][(WorkerStep /\ HeadBio.dir = "WRITE") =>
          \A m \in Mirrors : \A s \in LogicalSectors \ BioSectors(HeadBio) :
              /\ SectorOf(disk'[m], s) = SectorOf(disk[m], s)
              /\ CrcOf(disk'[m], s) = CrcOf(disk[m], s)]_vars

\* a write of sector 0 alone has changed what a mirror stores, sector 1
\* being another sector of the disk
C17_Witness ==
    /\ last.by = "worker"
    /\ last.bio.dir = "WRITE"
    /\ last.bio.bi_sector = 0
    /\ last.bio.bi_vcnt = 1
    /\ ~last.err_data
    /\ corrupted = 0
    /\ disk["vdc"] # disk["vdb"]

\* the call that releases what an allocating call returned
ReleaseOf(fn) ==
    CASE fn = "bio_alloc"  -> "bio_put"
      [] fn = "alloc_page" -> "__free_page"
      [] fn = "kmalloc"    -> "kfree"

Allocators == {"bio_alloc", "alloc_page", "kmalloc"}

Releasers == {ReleaseOf(fn) : fn \in Allocators}

\* C18: by the time a request has ended, every bio, page and work item
\* allocated for it in ssr_submit_bio has been released exactly once and
\* nothing that was never allocated has been released; when an allocation
\* failed, no work item was queued and the request was completed once.
C18_AllocationsReleasedOnce ==
    last.by \in {"submit", "worker"} =>
        LET calls == Calls(last)
        IN  /\ \A i \in DOMAIN calls :
                  calls[i][1] \in Allocators =>
                      Count(calls, <<ReleaseOf(calls[i][1]), calls[i][2]>>) = 1
            /\ \A i \in DOMAIN calls :
                  calls[i][1] \in Releasers =>
                      \E j \in 1..(i - 1) :
                          /\ calls[j][1] \in Allocators
                          /\ ReleaseOf(calls[j][1]) = calls[i][1]
                          /\ calls[j][2] = calls[i][2]
            /\ last.by = "submit" =>
                  /\ Positions(calls, "queue_work") = {}
                  /\ Count(calls, <<"bio_endio", "bio_from_up">>) = 1

IsAcquire(e) == e[1] = "acquire"

IsRelease(e) == e[1] = "release"

\* the resources named by a sequence of log entries, in order
Names(log) == [i \in DOMAIN log |-> log[i][2]]

Reverse(seq) == [i \in 1..Len(seq) |-> seq[Len(seq) + 1 - i]]

\* C19: when ssr_init has failed, every resource acquired before the
\* failing step has been released exactly once, in reverse order of
\* acquisition, nothing is still held and nothing was released that had
\* not been acquired (the first mirror is closed when opening the second
\* fails; no mirror is closed without having been opened).
C19_InitFailureUnwinds ==
    life.phase = "init_failed" =>
        LET acquired == SelectSeq(life.log, IsAcquire)
            released == SelectSeq(life.log, IsRelease)
        IN  /\ life.log = acquired \o released
            /\ Names(released) = Reverse(Names(acquired))
            /\ \A i, j \in DOMAIN acquired : i # j => acquired[i] # acquired[j]
            /\ \A r \in Resources : life.res[r] # "held"

\* ssr_init has failed on opening the second mirror and has returned
C19_Witness ==
    /\ life.phase = "init_failed"
    /\ life.failed = "vdc"
    /\ life.res["vdb"] = "released"

====
